---- MODULE Spec2Model ----
(***************************************************************************)
(* A model of the flat trie of src/src/lib.rs (Trie), src/src/node.rs      *)
(* (Node, NodeIter) and src/src/key.rs (key derivation).                   *)
(*                                                                         *)
(* An edge key is derived from (prefix, element); the hash is taken to be  *)
(* collision free, so the key of position idx of seq is the sequence of    *)
(* the first idx+1 elements of seq.  Indices are 0-based as in the source; *)
(* TLA+ sequences are 1-based, so seq[idx + 1] is the source's seq[idx].   *)
(***************************************************************************)
EXTENDS Integers, Sequences, FiniteSets, TLC

\* ------------------------------------------------------------------ bounds
NumElem == 2
MaxLen == 3
MaxNodes == 4
MaxNodesRT == 5

Elem == 1..NumElem

RECURSIVE SeqsOfLen(_)
SeqsOfLen(n) ==
    IF n = 0 THEN {<<>>}
    ELSE {Append(s, e) : s \in SeqsOfLen(n - 1), e \in Elem}

\* the non-empty sequences callers pass to the trie
Args == UNION {SeqsOfLen(n) : n \in 1..MaxLen}

VARIABLES
    starts,     \* Trie.starts: the list of start keys
    children,   \* Trie.children: the map from key to Node
    len,        \* Trie.len
    op,         \* the public operation called last
    arg,        \* its argument
    ret,        \* its boolean result (contains, remove)
    out,        \* its list result (search: collected; iter: keys of yielded nodes)
    branch,     \* the branch_state of the last remove
    panicked,   \* the last call panicked
    phase,      \* round trip: "insert" while inserting, "remove" while removing
    stored      \* round trip: the sequences inserted and not yet removed

vars == <<starts, children, len, op, arg, ret, out, branch, panicked, phase, stored>>

\* ------------------------------------------------------------ helpers
InSeq(x, s) == \E i \in 1..Len(s) : s[i] = x

\* Vec::iter().position(): 1-based index of the first occurrence, 0 if none
Position(x, s) ==
    IF InSeq(x, s) THEN CHOOSE i \in 1..Len(s) : s[i] = x /\ \A j \in 1..(i - 1) : s[j] # x
    ELSE 0

\* Vec::remove(idx) with a 1-based index
RemoveAt(s, i) == SubSeq(s, 1, i - 1) \o SubSeq(s, i + 1, Len(s))

\* HashMap::insert and HashMap::remove
MapPut(f, k, v) == [x \in (DOMAIN f) \cup {k} |-> IF x = k THEN v ELSE f[x]]
MapDel(f, k) == [x \in (DOMAIN f) \ {k} |-> f[x]]

EmptyMap == [x \in {} |-> 0]

\* --------------------------------------------------------------- key.rs
key_at_index(idx, seq) == SubSeq(seq, 1, idx + 1)

key_from_seq(seq) == key_at_index(Len(seq) - 1, seq)

\* `seq.len() - 1` on an empty slice: the subtraction overflows (a panic with
\* overflow checks) or wraps to usize::MAX and `&seq[..i]` is out of range
\* (a panic as well)
key_from_seq_panics(seq) == Len(seq) = 0

\* -------------------------------------------------------------- node.rs
Node_new(val, seq, idx, terminal) ==
    [key |-> key_at_index(idx, seq), val |-> val, children |-> <<>>,
     child_size |-> 0, terminal |-> terminal]

child_len(node) == Len(node.children)

\* mutant: the new child key goes to the front of the list
update_children_front(node, seq, idx) ==
    LET i == idx + 1 IN
    IF i < Len(seq) /\ ~InSeq(key_at_index(i, seq), node.children)
    THEN [node EXCEPT !.child_size = @ + 1,
                      !.children = <<key_at_index(i, seq)>> \o @]
    ELSE node

\* mutant: the child key is pushed without the contains test
update_children_dup(node, seq, idx) ==
    LET i == idx + 1 IN
    IF i < Len(seq)
    THEN [node EXCEPT !.child_size = @ + 1,
                      !.children = Append(@, key_at_index(i, seq))]
    ELSE node

update_children(node, seq, idx) ==
    LET i == idx + 1 IN
    IF i < Len(seq) /\ ~InSeq(key_at_index(i, seq), node.children)
    THEN [node EXCEPT !.child_size = @ + 1,
                      !.children = Append(@, key_at_index(i, seq))]
    ELSE node

\* true when remove_child would take child_size below zero
\* (usize subtraction overflow: a panic in a build with overflow checks)
remove_child_underflows(node, key) ==
    InSeq(key, node.children) /\ node.child_size = 0

\* mutant: the count is decremented but the key stays in the list
remove_child_stale(node, key) ==
    LET idx == Position(key, node.children) IN
    IF idx # 0
    THEN [node EXCEPT !.child_size = @ - 1]
    ELSE node

\* mutant: the key leaves the list but the count stays
remove_child_uncounted(node, key) ==
    LET idx == Position(key, node.children) IN
    IF idx # 0
    THEN [node EXCEPT !.children = RemoveAt(@, idx)]
    ELSE node

remove_child(node, key) ==
    LET idx == Position(key, node.children) IN
    IF idx # 0
    THEN [node EXCEPT !.children = RemoveAt(@, idx), !.child_size = @ - 1]
    ELSE node

\* --------------------------------------------------------------- lib.rs
Trie_new == [starts |-> <<>>, children |-> EmptyMap, len |-> 0]

\* mutant: emptiness read off the starts list
is_empty_starts(t) == t.starts = <<>>

is_empty(t) == t.len = 0

contains(t, seq_key) ==
    LET key == key_from_seq(seq_key) IN
    key \in DOMAIN t.children /\ t.children[key].terminal

\* the link step of _insert: push key onto the children of the node before it
LinkToParent(map, seq, idx, key) ==
    LET pk == key_at_index(idx - 1, seq) IN
    IF idx > 0 /\ pk \in DOMAIN map /\ ~InSeq(key, map[pk].children)
    THEN [map EXCEPT ![pk] = [@ EXCEPT !.children = Append(@, key),
                                       !.child_size = @ + 1]]
    ELSE map

RECURSIVE _insert(_, _, _)
_insert(t, seq, idx) ==
    LET key == key_at_index(idx, seq) IN
    IF key \in DOMAIN t.children
    THEN LET t1 == [t EXCEPT !.children[key] = update_children(@, seq, idx)]
         IN IF idx + 1 < Len(seq) THEN _insert(t1, seq, idx + 1) ELSE t1
    ELSE LET terminal == (Len(seq) = idx + 1)
             node == Node_new(seq[idx + 1], seq, idx, terminal)
             map1 == MapPut(t.children, key, node)
             t1 == [t EXCEPT !.children = LinkToParent(map1, seq, idx, key),
                             !.len = @ + 1]
         IN IF idx + 1 < Len(seq) THEN _insert(t1, seq, idx + 1) ELSE t1

\* mutant: an existing end node is left as it is
insert_unflagged(t, seq) ==
    IF Len(seq) = 0 THEN t
    ELSE IF key_from_seq(seq) \in DOMAIN t.children THEN t
    ELSE LET key == key_at_index(0, seq)
             t1 == IF ~InSeq(key, t.starts)
                   THEN [t EXCEPT !.starts = Append(@, key)]
                   ELSE t
         IN _insert(t1, seq, 0)

\* mutant: the early return counts the sequence
insert_recount(t, seq) ==
    IF Len(seq) = 0 THEN t
    ELSE IF key_from_seq(seq) \in DOMAIN t.children
    THEN [t EXCEPT !.children[key_from_seq(seq)].terminal = TRUE, !.len = @ + 1]
    ELSE LET key == key_at_index(0, seq)
             t1 == IF ~InSeq(key, t.starts)
                   THEN [t EXCEPT !.starts = Append(@, key)]
                   ELSE t
         IN _insert(t1, seq, 0)

\* mutant: the start key is pushed before the emptiness test
insert_unguarded(t, seq) ==
    IF Len(seq) = 0 THEN [t EXCEPT !.starts = Append(@, seq)]
    ELSE IF key_from_seq(seq) \in DOMAIN t.children
    THEN [t EXCEPT !.children[key_from_seq(seq)].terminal = TRUE]
    ELSE LET key == key_at_index(0, seq)
             t1 == IF ~InSeq(key, t.starts)
                   THEN [t EXCEPT !.starts = Append(@, key)]
                   ELSE t
         IN _insert(t1, seq, 0)

insert(t, seq) ==
    IF Len(seq) = 0 THEN t
    ELSE IF key_from_seq(seq) \in DOMAIN t.children
    THEN [t EXCEPT !.children[key_from_seq(seq)].terminal = TRUE]
    ELSE LET key == key_at_index(0, seq)
             t1 == IF ~InSeq(key, t.starts)
                   THEN [t EXCEPT !.starts = Append(@, key)]
                   ELSE t
         IN _insert(t1, seq, 0)

\* mutant: the starts list is kept
clear_keeps_starts(t) == [t EXCEPT !.len = 0, !.children = EmptyMap]

clear(t) == [t EXCEPT !.len = 0, !.children = EmptyMap, !.starts = <<>>]

\* the outcome of a call that returns a bool: the trie after it, the value
\* returned, and whether the call panicked instead of returning
Ok(t, r) == [t |-> t, ret |-> r, panic |-> FALSE]
Panic(t) == [t |-> t, ret |-> FALSE, panic |-> TRUE]

HasNode(t, idx, seq) == key_at_index(idx, seq) \in DOMAIN t.children
NodeAt(t, idx, seq) == t.children[key_at_index(idx, seq)]

\* [val, panic]: panics when the end node is missing
is_terminal_end(t, seq) ==
    IF Len(seq) = 0 \/ key_from_seq(seq) \notin DOMAIN t.children
    THEN [val |-> FALSE, panic |-> TRUE]
    ELSE LET node == t.children[key_from_seq(seq)] IN
         [val |-> child_len(node) > 0 /\ node.terminal, panic |-> FALSE]

\* the closure of contains_terminal at position i (the node exists)
InnerStop(t, i, seq) ==
    NodeAt(t, i, seq).terminal \/ NodeAt(t, i, seq).child_size > 1

\* mutant: inner terminal nodes are not seen
contains_terminal_blind(t, seq) == [val |-> FALSE, panic |-> FALSE]

\* [val, panic]: any() stops at the first position that answers true and
\* panics at a missing node met before that
contains_terminal(t, seq) ==
    LET inner == 0..(Len(seq) - 2)
        hit(i) == HasNode(t, i, seq) /\ InnerStop(t, i, seq)
    IN [val |-> \E i \in inner : hit(i) /\ \A j \in 0..(i - 1) : HasNode(t, j, seq),
        panic |-> \E i \in inner : ~HasNode(t, i, seq) /\ \A j \in 0..(i - 1) : ~hit(j)]

\* [some, idx, panic]
contains_terminal_with_key(t, seq) ==
    LET all == 0..(Len(seq) - 1)
        hit(i) == HasNode(t, i, seq) /\ NodeAt(t, i, seq).terminal /\ i # Len(seq) - 1
        any == \E i \in all : hit(i) /\ \A j \in 0..(i - 1) : HasNode(t, j, seq)
        stop(i) == HasNode(t, i, seq) /\ InnerStop(t, i, seq)
        found == {i \in 0..(Len(seq) - 2) : stop(i)}
    IN [some |-> any /\ found # {},
        idx |-> IF any /\ found # {}
                THEN CHOOSE i \in found : \A j \in found : j <= i
                ELSE 0,
        panic |-> \E i \in all : ~HasNode(t, i, seq) /\ \A j \in 0..(i - 1) : ~hit(j)]

\* mutant: the removed start node is not counted off
_remove_start_nocount(t, key) ==
    IF key \in DOMAIN t.children /\ t.children[key].child_size # 0
    THEN Ok([t EXCEPT !.children[key].terminal = FALSE], TRUE)
    ELSE LET idx == Position(key, t.starts) IN
         IF idx = 0 THEN Ok(t, FALSE)
         ELSE Ok([t EXCEPT !.starts = RemoveAt(@, idx),
                           !.children = MapDel(@, key)], TRUE)

_remove_start(t, key) ==
    IF key \in DOMAIN t.children /\ t.children[key].child_size # 0
    THEN Ok([t EXCEPT !.children[key].terminal = FALSE], TRUE)
    ELSE LET idx == Position(key, t.starts) IN
         IF idx = 0 THEN Ok(t, FALSE)
         ELSE IF t.len = 0 THEN Panic(t)
         ELSE Ok([t EXCEPT !.starts = RemoveAt(@, idx),
                           !.children = MapDel(@, key),
                           !.len = @ - 1], TRUE)

\* [map, emptied, panic]: unlink key from the node at parent
_remove(map, seq, key, parent) ==
    IF parent \notin DOMAIN map \/ remove_child_underflows(map[parent], key)
    THEN [map |-> map, emptied |-> FALSE, panic |-> TRUE]
    ELSE LET map1 == [map EXCEPT ![parent] = remove_child(@, key)] IN
         [map |-> map1, emptied |-> child_len(map1[parent]) = 0, panic |-> FALSE]

\* the while loop of the Terminal arm, from position idx
RECURSIVE remove_after(_, _, _)
remove_after(t, seq, idx) ==
    IF ~(idx < Len(seq)) THEN Ok(t, TRUE)
    ELSE LET key == key_at_index(idx, seq) IN
         IF key \in DOMAIN t.children
         THEN IF t.len = 0 THEN Panic(t)
              ELSE remove_after([t EXCEPT !.children = MapDel(@, key), !.len = @ - 1],
                                seq, idx + 1)
         ELSE remove_after(t, seq, idx + 1)

remove_terminal(t, seq, idx) ==
    LET key == key_at_index(idx, seq)
        unlink == key \in DOMAIN t.children /\ Len(seq) > idx + 1
    IN IF unlink /\ remove_child_underflows(t.children[key], key_at_index(idx + 1, seq))
       THEN Panic(t)
       ELSE LET t1 == IF unlink
                      THEN [t EXCEPT !.children[key] =
                                remove_child(@, key_at_index(idx + 1, seq))]
                      ELSE t
            IN remove_after(t1, seq, idx + 1)

\* the else branch of the Childless loop: the parent keeps other children
childless_stop(t, seq, i, key) ==
    IF key \in DOMAIN t.children /\ child_len(t.children[key]) = 0
    THEN LET map1 == MapDel(t.children, key)
             r == _remove(map1, seq, key, key_at_index(i - 1, seq))
         IN IF r.panic \/ t.len = 0 THEN Panic(t)
            ELSE Ok([t EXCEPT !.children = r.map, !.len = @ - 1], TRUE)
    ELSE Ok(t, TRUE)

\* the while loop of the Childless arm, at position i
RECURSIVE remove_childless(_, _, _)
remove_childless(t, seq, i) ==
    IF ~(i > 0) THEN Ok(t, TRUE)
    ELSE LET key == key_at_index(i, seq)
             r == _remove(t.children, seq, key, key_at_index(i - 1, seq))
         IN IF r.panic THEN Panic(t)
            ELSE IF r.emptied
            THEN IF t.len = 0 THEN Panic(t)
                 ELSE LET t1 == [t EXCEPT !.len = @ - 1,
                                          !.children = MapDel(r.map, key)]
                          first_key == key_at_index(0, seq)
                      IN IF i = 1
                         THEN IF first_key \notin DOMAIN t1.children THEN Panic(t1)
                              ELSE IF ~t1.children[first_key].terminal
                              THEN LET rs == _remove_start(t1, first_key) IN
                                   IF rs.panic THEN rs ELSE Ok(rs.t, TRUE)
                              ELSE remove_childless(t1, seq, i - 1)
                         ELSE remove_childless(t1, seq, i - 1)
            ELSE childless_stop([t EXCEPT !.children = r.map], seq, i, key)

\* [state, idx, panic]
branch_state(t, seq) ==
    LET st(s) == [state |-> s, idx |-> 0, panic |-> FALSE]
        boom == [state |-> "Panic", idx |-> 0, panic |-> TRUE]
        ct == contains_terminal(t, seq)
        te == is_terminal_end(t, seq)
        ck == contains_terminal_with_key(t, seq)
    IN IF is_empty(t) THEN st("Empty")
       ELSE IF Len(seq) = 1 /\ key_from_seq(seq) \in DOMAIN t.children THEN st("Starts")
       ELSE IF ~(\A i \in 0..(Len(seq) - 1) : HasNode(t, i, seq)) THEN st("NoMatch")
       ELSE IF t.len = Len(seq) /\ ct.panic THEN boom
       ELSE IF t.len = Len(seq) /\ ~ct.val THEN st("Rest")
       ELSE IF te.panic THEN boom
       ELSE IF te.val THEN st("Stemish")
       ELSE IF ck.panic THEN boom
       ELSE IF ck.some THEN [state |-> "Terminal", idx |-> ck.idx, panic |-> FALSE]
       ELSE st("Childless")

\* mutant: the NoMatch arm clears the trie like the Rest arm
remove_reset(t, seq) ==
    LET bs == branch_state(t, seq) IN
    CASE bs.state = "Panic" -> Panic(t)
      [] bs.state = "NoMatch" -> Ok(clear(t), FALSE)
      [] bs.state = "Empty" -> Ok(t, FALSE)
      [] bs.state = "Starts" -> _remove_start(t, key_from_seq(seq))
      [] bs.state = "Rest" -> Ok(clear(t), TRUE)
      [] bs.state = "Terminal" -> remove_terminal(t, seq, bs.idx)
      [] bs.state = "Stemish" ->
            Ok([t EXCEPT !.children[key_from_seq(seq)].terminal = FALSE], TRUE)
      [] bs.state = "Childless" ->
            remove_childless(t, seq, Len(seq) - 1)

remove(t, seq) ==
    LET bs == branch_state(t, seq) IN
    CASE bs.state = "Panic" -> Panic(t)
      [] bs.state = "NoMatch" -> Ok(t, FALSE)
      [] bs.state = "Empty" -> Ok(t, FALSE)
      [] bs.state = "Starts" -> _remove_start(t, key_from_seq(seq))
      [] bs.state = "Rest" -> Ok(clear(t), TRUE)
      [] bs.state = "Terminal" -> remove_terminal(t, seq, bs.idx)
      [] bs.state = "Stemish" ->
            Ok([t EXCEPT !.children[key_from_seq(seq)].terminal = FALSE], TRUE)
      [] bs.state = "Childless" ->
            remove_childless(t, seq, Len(seq) - 1)

\* ------------------------------------------------------- Found, search
Found_new == [roll_back |-> <<>>, temp |-> <<>>, collected |-> <<>>]

extend(found, i) == [found EXCEPT !.temp = @ \o i]

push_val(found, v) == [found EXCEPT !.temp = Append(@, v)]

branch_end_continue(found) == [found EXCEPT !.collected = Append(@, found.temp)]

branch_split(found, key) ==
    LET idx == Position(key, found.temp) IN
    IF idx # 0 THEN [found EXCEPT !.temp = SubSeq(@, 1, idx)] ELSE found

branch_end(found) ==
    [found EXCEPT !.collected = Append(@, found.temp),
                  !.temp = SubSeq(@, 1, Len(@) - 1)]

\* [found, panic]: Node::children unwraps every child key, so a key without a
\* node panics before the first child is visited
RECURSIVE _search(_, _, _), search_kids(_, _, _, _)
_search(map, node, found) ==
    IF node.terminal /\ child_len(node) = 0
    THEN [found |-> branch_end(found), panic |-> FALSE]
    ELSE LET f1 == IF node.terminal THEN branch_end_continue(found) ELSE found IN
         IF \E i \in 1..Len(node.children) : node.children[i] \notin DOMAIN map
         THEN [found |-> f1, panic |-> TRUE]
         ELSE search_kids(map, node, 1, f1)

\* the for loop of _search over the children of node, from the i-th child
search_kids(map, node, i, found) ==
    IF i > Len(node.children) THEN [found |-> found, panic |-> FALSE]
    ELSE LET n == map[node.children[i]]
             r == _search(map, n, push_val(found, n.val))
         IN IF r.panic THEN r
            ELSE search_kids(map, node, i + 1,
                    IF ~node.terminal /\ child_len(node) > 1
                    THEN branch_split(r.found, node.val)
                    ELSE r.found)

\* mutant: the prefix itself is reported when it has no node
search_echo(t, seq_key) ==
    IF Len(seq_key) = 0 THEN [found |-> Found_new, panic |-> TRUE]
    ELSE LET key == key_from_seq(seq_key)
             res == extend(Found_new, seq_key)
         IN IF key \in DOMAIN t.children
            THEN _search(t.children, t.children[key], res)
            ELSE [found |-> branch_end_continue(res), panic |-> FALSE]

\* [found, panic]
search(t, seq_key) ==
    IF Len(seq_key) = 0 THEN [found |-> Found_new, panic |-> TRUE]
    ELSE LET key == key_from_seq(seq_key)
             res == extend(Found_new, seq_key)
         IN IF key \in DOMAIN t.children
            THEN _search(t.children, t.children[key], res)
            ELSE [found |-> res, panic |-> FALSE]

as_collected(found) == found.collected

\* ------------------------------------------------ NodeIter, TrieIter
\* A reference to a node is the map key it is stored under; None is the
\* empty key, which no node has.
None == <<>>

map_get(map, key) == IF key \in DOMAIN map THEN key ELSE None

Rev(s) == [i \in 1..Len(s) |-> s[Len(s) + 1 - i]]

walk(node) == [current |-> node, next |-> None, all_kids |-> <<>>]

\* [it, item]: one call of NodeIter::next
NodeIter_next(map, it) ==
    IF it.next = None
    THEN LET kids == it.all_kids \o map[it.current].children IN
         IF kids # <<>>
         THEN LET nxt == map_get(map, Head(kids)) IN
              [it |-> [it EXCEPT !.all_kids = Tail(kids), !.next = nxt], item |-> nxt]
         ELSE [it |-> [it EXCEPT !.all_kids = kids], item |-> None]
    ELSE LET kids == Rev(map[it.next].children) \o it.all_kids IN
         IF kids = <<>>
         THEN [it |-> [it EXCEPT !.current = it.next, !.all_kids = kids], item |-> None]
         ELSE LET nxt == map_get(map, Head(kids)) IN
              [it |-> [current |-> it.next, next |-> nxt, all_kids |-> Tail(kids)],
               item |-> nxt]

\* .map(|n| n.key.clone()).collect(): the keys yielded until the first None
RECURSIVE walk_collect(_, _, _)
walk_collect(map, it, acc) ==
    LET r == NodeIter_next(map, it) IN
    IF r.item = None THEN acc
    ELSE walk_collect(map, r.it, Append(acc, map[r.item].key))

iter(t) == [current |-> None, children |-> <<>>, idx |-> 0, next_idx |-> 0]

\* the first and the last branch of TrieIter::next: move to the next start
next_start(t, it, rewalk) ==
    IF ~(it.idx < Len(t.starts)) \/ t.starts[it.idx + 1] \notin DOMAIN t.children
    THEN [it |-> it, item |-> None]
    ELSE LET key == t.starts[it.idx + 1] IN
         [it |-> [it EXCEPT !.current = key, !.idx = @ + 1,
                            !.children = IF rewalk
                                         THEN walk_collect(t.children, walk(key), <<>>)
                                         ELSE @],
          item |-> key]

\* [it, item]: one call of TrieIter::next
TrieIter_next(t, it) ==
    IF it.current = None THEN next_start(t, it, TRUE)
    ELSE IF it.next_idx < Len(it.children)
    THEN LET cur == map_get(t.children, it.children[it.next_idx + 1]) IN
         IF it.next_idx + 1 >= Len(it.children)
         THEN [it |-> [it EXCEPT !.current = None, !.next_idx = 0], item |-> cur]
         ELSE [it |-> [it EXCEPT !.current = cur, !.next_idx = @ + 1], item |-> cur]
    ELSE next_start(t, it, FALSE)

\* the keys of the nodes a for loop over iter() sees
RECURSIVE iter_collect(_, _, _)
iter_collect(t, it, acc) ==
    LET r == TrieIter_next(t, it) IN
    IF r.item = None THEN acc
    ELSE iter_collect(t, r.it, Append(acc, t.children[r.item].key))

\* ---------------------------------------------------------- the machine
Trie == [starts |-> starts, children |-> children, len |-> len]

SetTrie(t) ==
    /\ starts' = t.starts
    /\ children' = t.children
    /\ len' = t.len

InitCall ==
    /\ starts = Trie_new.starts
    /\ children = Trie_new.children
    /\ len = Trie_new.len
    /\ op = "new"
    /\ arg = <<>>
    /\ ret = FALSE
    /\ out = <<>>
    /\ branch = "none"
    /\ panicked = FALSE
    /\ stored = {}

CallInsert(s, cap) ==
    /\ ~panicked
    /\ LET t == insert(Trie, s) IN
         /\ t.len <= cap
         /\ SetTrie(t)
    /\ op' = "insert"
    /\ arg' = s
    /\ ret' = FALSE
    /\ out' = <<>>
    /\ branch' = "none"
    /\ panicked' = FALSE

CallRemove(s) ==
    /\ ~panicked
    /\ LET r == remove(Trie, s) IN
         /\ SetTrie(r.t)
         /\ ret' = r.ret
         /\ panicked' = r.panic
    /\ op' = "remove"
    /\ arg' = s
    /\ out' = <<>>
    /\ branch' = branch_state(Trie, s).state

CallClear ==
    /\ ~panicked
    /\ SetTrie(clear(Trie))
    /\ op' = "clear"
    /\ arg' = <<>>
    /\ ret' = FALSE
    /\ out' = <<>>
    /\ branch' = "none"
    /\ panicked' = FALSE

CallContains(s) ==
    /\ ~panicked
    /\ UNCHANGED <<starts, children, len>>
    /\ op' = "contains"
    /\ arg' = s
    /\ ret' = (~key_from_seq_panics(s) /\ contains(Trie, s))
    /\ out' = <<>>
    /\ branch' = "none"
    /\ panicked' = key_from_seq_panics(s)

CallSearch(p) ==
    /\ ~panicked
    /\ UNCHANGED <<starts, children, len>>
    /\ op' = "search"
    /\ arg' = p
    /\ ret' = FALSE
    /\ branch' = "none"
    /\ LET r == search(Trie, p) IN
         /\ out' = as_collected(r.found)
         /\ panicked' = r.panic

CallIter ==
    /\ ~panicked
    /\ UNCHANGED <<starts, children, len>>
    /\ op' = "iter"
    /\ arg' = <<>>
    /\ ret' = FALSE
    /\ out' = iter_collect(Trie, iter(Trie), <<>>)
    /\ branch' = "none"
    /\ panicked' = FALSE

\* ---- Spec: any sequence of calls with non-empty arguments
Init == InitCall /\ phase = "free"

Insert(s) == CallInsert(s, MaxNodes) /\ UNCHANGED <<phase, stored>>
Remove(s) == CallRemove(s) /\ UNCHANGED <<phase, stored>>
Clear == CallClear /\ UNCHANGED <<phase, stored>>
Contains(s) == CallContains(s) /\ UNCHANGED <<phase, stored>>
Search(p) == CallSearch(p) /\ UNCHANGED <<phase, stored>>
Iter == CallIter /\ UNCHANGED <<phase, stored>>

Next ==
    \/ \E s \in Args : Insert(s)
    \/ \E s \in Args : Remove(s)
    \/ Clear
    \/ \E s \in Args : Contains(s)
    \/ \E p \in Args : Search(p)
    \/ Iter

Spec == Init /\ [][Next]_vars

\* ---- SpecRT: the round trip.  Distinct sequences are inserted into a new
\* trie, then stored sequences are removed, each once, in any order; search
\* and iter may be called at any point.
InitRT == InitCall /\ phase = "insert"

RTInsert(s) ==
    /\ phase = "insert"
    /\ s \notin stored
    /\ CallInsert(s, MaxNodesRT)
    /\ stored' = stored \cup {s}
    /\ UNCHANGED phase

RTRemove(s) ==
    /\ s \in stored
    /\ CallRemove(s)
    /\ stored' = stored \ {s}
    /\ phase' = "remove"

RTSearch(p) == CallSearch(p) /\ UNCHANGED <<phase, stored>>
RTIter == CallIter /\ UNCHANGED <<phase, stored>>

NextRT ==
    \/ \E s \in Args : RTInsert(s)
    \/ \E s \in Args : RTRemove(s)
    \/ \E p \in Args : RTSearch(p)
    \/ RTIter

SpecRT == InitRT /\ [][NextRT]_vars

\* ---- SpecE: the mutating calls of Spec, and insert, contains and remove
\* of the empty sequence
InsertEmpty == CallInsert(<<>>, MaxNodes) /\ UNCHANGED <<phase, stored>>
ContainsEmpty == CallContains(<<>>) /\ UNCHANGED <<phase, stored>>
RemoveEmpty == CallRemove(<<>>) /\ UNCHANGED <<phase, stored>>

NextE ==
    \/ \E s \in Args : Insert(s)
    \/ \E s \in Args : Remove(s)
    \/ Clear
    \/ InsertEmpty
    \/ ContainsEmpty
    \/ RemoveEmpty

SpecE == Init /\ [][NextE]_vars

\* ---- SpecC: any inserts and clears, removes only of contained sequences;
\* stored is the set of sequences inserted and not removed since
InitC == InitCall /\ phase = "contained"

CInsert(s) ==
    /\ CallInsert(s, MaxNodesRT)
    /\ stored' = stored \cup {s}
    /\ UNCHANGED phase

CRemove(s) ==
    /\ contains(Trie, s)
    /\ CallRemove(s)
    /\ stored' = stored \ {s}
    /\ UNCHANGED phase

CClear ==
    /\ CallClear
    /\ stored' = {}
    /\ UNCHANGED phase

NextC ==
    \/ \E s \in Args : CInsert(s)
    \/ \E s \in Args : CRemove(s)
    \/ CClear

SpecC == InitC /\ [][NextC]_vars

\* ---- SpecU: SpecC, and insert(s) directly followed by remove(s) for a
\* sequence that is not contained
CInsertThenRemove(s) ==
    /\ ~panicked
    /\ ~contains(Trie, s)
    /\ LET t == insert(Trie, s)
           r == remove(t, s)
       IN /\ t.len <= MaxNodesRT
          /\ SetTrie(r.t)
          /\ ret' = r.ret
          /\ panicked' = r.panic
          /\ branch' = branch_state(t, s).state
    /\ op' = "insert_remove"
    /\ arg' = s
    /\ out' = <<>>
    /\ UNCHANGED <<phase, stored>>

NextU ==
    \/ \E s \in Args : CInsert(s)
    \/ \E s \in Args : CRemove(s)
    \/ CClear
    \/ \E s \in Args : CInsertThenRemove(s)

SpecU == InitC /\ [][NextU]_vars

\* ------------------------------------------------------------ the claims
IsPrefix(p, s) == Len(p) <= Len(s) /\ SubSeq(s, 1, Len(p)) = p

Range(q) == {q[i] : i \in 1..Len(q)}

NoDup(q) == \A i, j \in 1..Len(q) : i # j => q[i] # q[j]

\* C1: after insert(s) with a non-empty s, in any reachable state,
\* contains(s) is true (and the call did not panic).
C1_InsertThenContains ==
    op = "insert" => ~panicked /\ contains(Trie, arg)

C1_Witness ==
    op = "insert" /\ contains(Trie, arg) /\ Len(arg) = MaxLen /\ len = MaxNodes

\* C2: a remove(s) that returns true leaves contains(s) false and leaves
\* contains(s2) as it was for every other sequence s2.
C2_RemoveNoCollateral ==
    [][(op' = "remove" /\ ret')
        => /\ ~contains(Trie', arg')
           /\ \A s2 \in Args \ {arg'} : contains(Trie', s2) = contains(Trie, s2)]_vars

C2_Witness ==
    /\ op = "remove" /\ ret /\ branch = "Childless"
    /\ ~contains(Trie, arg)
    /\ \E s2 \in Args : IsPrefix(SubSeq(arg, 1, Len(arg) - 1), s2) /\ contains(Trie, s2)

\* C3: round trip.  Every remove returns true, after every step contains is
\* true exactly for the sequences inserted and not yet removed, and when all
\* have been removed the trie is empty (map and starts empty, len 0).
C3_RoundTrip ==
    /\ ~panicked
    /\ op = "remove" => ret
    /\ \A s \in Args : contains(Trie, s) <=> s \in stored
    /\ stored = {} => is_empty(Trie) /\ children = EmptyMap /\ starts = <<>>

C3_Witness ==
    /\ phase = "remove" /\ stored = {} /\ op = "remove" /\ ret
    /\ is_empty(Trie) /\ branch = "Starts"

\* the stored sequences that have p as a prefix
Matching(p) == {s \in stored : IsPrefix(p, s)}

\* C4: in a trie built by inserts, search(p) collects exactly the inserted
\* sequences that have p as a prefix, each once.
C4_SearchExact ==
    (op = "search" /\ phase = "insert")
        => /\ ~panicked
           /\ Range(out) = Matching(arg)
           /\ NoDup(out)

\* C5: remove(s) returns false when contains(s) is false.
C5_RemoveAbsentFalse ==
    [][(op' = "remove" /\ ~contains(Trie, arg')) => ~ret']_vars

\* C6: remove(s) returns true when contains(s) is true.
C6_RemoveStoredTrue ==
    [][(op' = "remove" /\ contains(Trie, arg')) => ret' /\ ~panicked']_vars

\* C7: insert(s) directly after insert(s) changes nothing: the state after
\* an insert(s) is a fixed point of insert(s).
C7_InsertIdempotent ==
    op = "insert" => insert(Trie, arg) = Trie

C7_Witness ==
    op = "insert" /\ insert(Trie, arg) = Trie /\ len = MaxNodes /\ Len(arg) < MaxLen

\* the position of the start chain of key k in starts
ChainOf(k) == Position(SubSeq(k, 1, 1), starts)

\* C8: iter() yields every live node once, start chain by start chain in
\* starts order, each chain in depth-first pre-order; the number of yielded
\* nodes is len.
C8_IterPreOrder ==
    op = "iter"
        => /\ Range(out) = DOMAIN children
           /\ NoDup(out)
           /\ Len(out) = len
           /\ \A i, j \in 1..Len(out) :
                /\ (i < j) => ChainOf(out[i]) <= ChainOf(out[j])
                /\ (i # j /\ IsPrefix(out[i], out[j])) => i < j
           /\ \A i, j, k \in 1..Len(out) :
                (i < j /\ j < k /\ IsPrefix(out[i], out[k])) => IsPrefix(out[i], out[j])

\* C9: after clear() the map and starts are empty and len is 0; nothing is
\* contained, found or yielded, and an insert behaves as on a new trie.
C9_ClearEmpties ==
    op = "clear"
        => /\ ~panicked
           /\ children = EmptyMap /\ starts = <<>> /\ len = 0
           /\ is_empty(Trie)
           /\ \A s \in Args :
                /\ ~contains(Trie, s)
                /\ as_collected(search(Trie, s).found) = <<>>
                /\ insert(Trie, s) = insert(Trie_new, s)
           /\ iter_collect(Trie, iter(Trie), <<>>) = <<>>

C9_Witness ==
    op = "clear" /\ is_empty(Trie) /\ children = EmptyMap /\ starts = <<>>

\* C10: search(p) for a prefix without a node at its key collects nothing
\* and does not modify the trie.
C10_SearchMissing ==
    [][(op' = "search" /\ arg' \notin DOMAIN children)
        => out' = <<>> /\ ~panicked' /\ Trie' = Trie]_vars

C10_Witness ==
    op = "search" /\ arg \notin DOMAIN children /\ out = <<>> /\ len = MaxNodes

\* C11: insert of the empty sequence leaves the map, the starts list and len
\* unchanged and does not fail.
C11_InsertEmptyIgnored ==
    [][(op' = "insert" /\ arg' = <<>>) => Trie' = Trie /\ ~panicked']_vars

C11_Witness ==
    op = "insert" /\ arg = <<>> /\ len = MaxNodes /\ Len(starts) > 1

\* C12: len is the number of nodes in the map, and no call panics on a
\* len that would go below zero.
C12_LenCountsNodes ==
    len = Cardinality(DOMAIN children) /\ ~panicked

C12_Witness ==
    /\ op = "remove" /\ ret /\ branch = "Childless"
    /\ arg \notin DOMAIN children
    /\ len = Cardinality(DOMAIN children) /\ len > 1

Contained == {s \in Args : contains(Trie, s)}

\* C13: when every remove is of a contained sequence, the state is exactly
\* the trie of the contained set: a node exists iff its key is a non-empty
\* prefix of a contained sequence, it is terminal iff its key is contained
\* (the sequences inserted and not removed since), and its children list
\* holds exactly the keys of the live nodes one element longer under it.
C13_ExactTrie ==
    /\ ~panicked
    /\ Contained = stored
    /\ DOMAIN children = {p \in Args : \E s \in Contained : IsPrefix(p, s)}
    /\ \A k \in DOMAIN children :
         /\ children[k].key = k
         /\ children[k].terminal <=> k \in stored
         /\ NoDup(children[k].children)
         /\ Range(children[k].children) =
              {c \in DOMAIN children : Len(c) = Len(k) + 1 /\ IsPrefix(k, c)}

C13_Witness ==
    /\ op = "remove" /\ ret /\ branch = "Terminal"
    /\ Cardinality(stored) = 2
    /\ \E k \in DOMAIN children : ~children[k].terminal

\* C14: the starts list holds, without duplicates, exactly the one-element
\* keys of the first elements of the live nodes.
C14_StartsExact ==
    /\ NoDup(starts)
    /\ Range(starts) = {key_at_index(0, k) : k \in DOMAIN children}

\* C15: is_empty() is true exactly when no sequence is contained.
C15_EmptyIffNothingContained ==
    is_empty(Trie) <=> Contained = {}

C15_Witness ==
    /\ op = "remove" /\ ret
    /\ Len(arg) = MaxLen
    /\ is_empty(Trie) /\ Contained = {}

\* C16: when the node at the full key of s exists already, insert(s) only
\* sets that node's terminal flag.
C16_InsertExisting ==
    [][(op' = "insert" /\ arg' \in DOMAIN children) =>
          /\ children' = [children EXCEPT ![arg'].terminal = TRUE]
          /\ starts' = starts
          /\ len' = len
          /\ ~panicked']_vars

C16_Witness ==
    /\ op = "insert"
    /\ arg \in DOMAIN children
    /\ children[arg].terminal
    /\ children[arg].children # <<>>

\* C17: when the node at the full key of s has at least one child,
\* remove(s) returns true and changes nothing but that node's terminal
\* flag, which becomes false, whether or not the node was terminal.
C17_RemoveWithChildren ==
    [][(op' = "remove" /\ arg' \in DOMAIN children
            /\ children[arg'].children # <<>>) =>
          /\ ret'
          /\ ~panicked'
          /\ children' = [children EXCEPT ![arg'].terminal = FALSE]
          /\ starts' = starts
          /\ len' = len]_vars

StopPositions(t, seq) ==
    {j \in 0..(Len(seq) - 2) :
        /\ HasNode(t, j, seq)
        /\ \/ NodeAt(t, j, seq).terminal
           \/ child_len(NodeAt(t, j, seq)) > 1}

Deepest(S) == CHOOSE j \in S : \A k \in S : k <= j

\* the precondition of C19 for the call remove(seq) in trie t
TerminalCase(t, seq) ==
    /\ contains(t, seq)
    /\ child_len(t.children[seq]) = 0
    /\ \E n \in 1..(Len(seq) - 1) : contains(t, SubSeq(seq, 1, n))

\* C19: when s is contained, its last node has no children and a strict
\* prefix of s is contained, remove(s) deletes exactly the nodes of s after
\* position i (the deepest position before the last whose node is terminal
\* or has more than one child), takes key i+1 out of the children of node
\* i, keeps every other node and flag, and lowers len by len(s) - 1 - i.
C19_TerminalArm ==
    [][(op' = "remove" /\ TerminalCase(Trie, arg')) =>
          LET i == Deepest(StopPositions(Trie, arg'))
              ki == key_at_index(i, arg')
              gone == {key_at_index(j, arg') : j \in (i + 1)..(Len(arg') - 1)}
          IN /\ ~panicked'
             /\ DOMAIN children' = DOMAIN children \ gone
             /\ \A k \in DOMAIN children' :
                    IF k = ki
                    THEN children'[k] =
                           remove_child(children[k], key_at_index(i + 1, arg'))
                    ELSE children'[k] = children[k]
             /\ \A j \in 0..i : HasNode(Trie', j, arg')
             /\ starts' = starts
             /\ len' = len - (Len(arg') - 1 - i)]_vars

\* the keys of the terminal nodes at and below key k, depth first, the
\* children of every node in the order of its children list
RECURSIVE TerminalsDFS(_, _), TerminalsOfKids(_, _, _)
TerminalsDFS(t, k) ==
    (IF t.children[k].terminal THEN <<k>> ELSE <<>>)
        \o TerminalsOfKids(t, t.children[k].children, 1)

TerminalsOfKids(t, kids, i) ==
    IF i > Len(kids) THEN <<>>
    ELSE TerminalsDFS(t, kids[i]) \o TerminalsOfKids(t, kids, i + 1)

\* C20: in a trie built by inserts only, a children list grows at its end
\* only (it is in the order the keys were first added), and search(p) for a
\* prefix whose node exists collects one entry per terminal node under p,
\* as many as there are stored sequences with prefix p, the n-th entry
\* produced at (ending in the element of) the n-th terminal node in
\* depth-first order.
C20_SearchOrder ==
    [][/\ (op' = "insert" /\ phase' = "insert") =>
            \A k \in DOMAIN children :
                IsPrefix(children[k].children, children'[k].children)
       /\ (op' = "search" /\ phase' = "insert" /\ arg' \in DOMAIN children) =>
            LET dfs == TerminalsDFS(Trie, arg') IN
              /\ ~panicked'
              /\ Len(out') = Cardinality(Matching(arg'))
              /\ Len(out') = Len(dfs)
              /\ Range(dfs) = Matching(arg')
              /\ \A n \in 1..Len(dfs) :
                     out'[n][Len(out'[n])] = dfs[n][Len(dfs[n])]]_vars

C20_Witness ==
    /\ op = "search" /\ phase = "insert" /\ arg = <<1>>
    /\ stored = {<<1, 2>>, <<1, 1>>}
    /\ out = <<<<1, 2>>, <<1, 1>>>>

\* C21: iter() yields the children of every node, at every depth, in the
\* order of the node's children list (insertion order).
C21_IterSiblingOrder ==
    op = "iter" =>
        \A k \in DOMAIN children :
            \A i, j \in 1..Len(children[k].children) :
                \A a, b \in 1..Len(out) :
                    (/\ i < j
                     /\ out[a] = children[k].children[i]
                     /\ out[b] = children[k].children[j]) => a < b

\* C22: a cursor of iter() on an unmodified trie ends after at most len
\* yielded nodes, yields no node twice, and a second cursor on the same
\* trie yields the same nodes in the same order.
C22_IterFinite ==
    op = "iter" =>
        /\ ~panicked
        /\ Len(out) <= len
        /\ NoDup(out)
        /\ Range(out) \subseteq DOMAIN children
        /\ iter_collect(Trie, iter(Trie), <<>>) = out

C22_Witness ==
    /\ op = "iter"
    /\ len = MaxNodes
    /\ Len(out) = len
    /\ Len(starts) = 2

\* a fixed order on sequences: the number a sequence spells in base NumElem+1
RECURSIVE Code(_)
Code(q) == IF q = <<>> THEN 0 ELSE Code(SubSeq(q, 1, Len(q) - 1)) * (NumElem + 1) + q[Len(q)]

\* the trie built from an empty one by inserting the set S in Code order
RECURSIVE InsertAll(_, _)
InsertAll(t, S) ==
    IF S = {} THEN t
    ELSE LET s == CHOOSE x \in S : \A y \in S : Code(x) <= Code(y)
         IN InsertAll(insert(t, s), S \ {s})

\* what C23 compares: everything but the order inside starts and children
Content(t) ==
    [keys |-> DOMAIN t.children,
     terminal |-> {k \in DOMAIN t.children : t.children[k].terminal},
     len |-> t.len,
     starts |-> Range(t.starts),
     kids |-> [k \in DOMAIN t.children |-> Range(t.children[k].children)]]

\* C23: the content of a trie built by inserts depends only on the set of
\* inserted sequences: whatever the order of the inserts, the node keys,
\* terminal flags, len, set of start keys and set of child keys of every
\* node are those of the trie built from the same set in a fixed order.
C23_OrderIrrelevant ==
    phase = "insert" => Content(Trie) = Content(InsertAll(Trie_new, stored))

C23_Witness ==
    /\ phase = "insert" /\ op = "insert"
    /\ Cardinality(stored) = 3
    /\ Trie # InsertAll(Trie_new, stored)
    /\ Content(Trie) = Content(InsertAll(Trie_new, stored))

\* C24: in a state reached with removes of contained sequences only, for a
\* sequence that is not contained, insert(s) followed by remove(s) returns
\* true and restores the map, the starts list and len exactly.
C24_RemoveUndoesInsert ==
    [][op' = "insert_remove" => (ret' /\ ~panicked' /\ Trie' = Trie)]_vars

C24_Witness ==
    /\ op = "insert_remove" /\ ret
    /\ Len(arg) = MaxLen
    /\ branch = "Terminal"
    /\ SubSeq(arg, 1, 2) \notin DOMAIN children
    /\ len = 3

\* C25: a remove call that returns false leaves the map (every node, flag
\* and children list), the starts list and len unchanged.
C25_FalseRemoveNoChange ==
    [][(op' = "remove" /\ ~ret') => (~panicked' /\ Trie' = Trie)]_vars

C25_Witness ==
    /\ op = "remove" /\ ~ret /\ ~panicked
    /\ branch = "NoMatch"
    /\ len = MaxNodes

\* C26: with non-empty arguments no call panics, and no children list holds
\* a key without a live node.
C26_NoPanic ==
    /\ ~panicked
    /\ \A k \in DOMAIN children :
          Range(children[k].children) \subseteq DOMAIN children

C26_Witness ==
    /\ op = "remove" /\ ret /\ ~panicked
    /\ branch = "Childless"
    /\ \E k \in DOMAIN children :
          Len(k) > 1 /\ SubSeq(k, 1, Len(k) - 1) \notin DOMAIN children

\* C27: contains and remove of the empty sequence return false, do not
\* panic and leave the trie as it is.
C27_EmptyArgFalse ==
    [][(op' \in {"contains", "remove"} /\ arg' = <<>>) =>
          (~ret' /\ ~panicked' /\ Trie' = Trie)]_vars

\* C28: every children list is free of duplicates and child_size is its
\* length.
C28_ChildSizeExact ==
    \A k \in DOMAIN children :
        /\ NoDup(children[k].children)
        /\ children[k].child_size = child_len(children[k])

C28_Witness ==
    /\ op = "remove" /\ ret
    /\ branch \in {"Terminal", "Childless"}
    /\ \E k \in DOMAIN children :
          /\ IsPrefix(k, arg) /\ Len(k) < Len(arg)
          /\ SubSeq(arg, 1, Len(k) + 1) \notin DOMAIN children
          /\ children[k].child_size = 1

====
